---- MODULE Spec2Model ----
(***************************************************************************)
(* Model of the PromptDjMidi control surface                              *)
(* (src/components/PromptDjMidi.ts): the Prompt Collection, the handlers  *)
(* of the Device Access Adapter's events, the slider handler, the events  *)
(* dispatched to the host and the rendered output.                        *)
(*                                                                         *)
(* Numbers that the code stores in prompt.weight are modelled as exact    *)
(* rationals <<n, d>> in lowest terms with d > 0.                          *)
(***************************************************************************)
EXTENDS Integers, Sequences, FiniteSets, TLC

\* ------------------------------------------------------------------ bounds
MaxPrompts == 2          \* prompts in the initial configuration: 0..MaxPrompts

\* --------------------------------------------------------- program constants
CCDivisor == 127         \* prompt.weight = value / 127
Undefined == -1          \* an unset prompt.cc (never === a controller number)
Null == "null"           \* activeMidiInputId: string | null

\* ------------------------------------------------------------- input sets
PromptNames == <<"A", "B", "C", "D">>
UnknownId   == "Z"                          \* a promptId that is no key
PromptCCs   == {Undefined, 1, 2}            \* cc of a configured prompt
EventCCs    == {1, 2, 3}                    \* cc of a control-change event
MidiValues  == {0, 127, 254}                  \* value of a control-change event
SliderWeights == {<<9, 10>>, <<3, 2>>}      \* weight of a slider change
ErrorMessages == {"permission denied", "MIDI API absent"}
DeviceIds   == {"d1"}                       \* device ids the adapter reports
SevenBit    == 0..CCDivisor                 \* a MIDI data byte

\* ------------------------------------------------------- exact arithmetic
RECURSIVE GCD(_, _)
GCD(a, b) == IF b = 0 THEN a ELSE GCD(b, a % b)

Abs(a) == IF a < 0 THEN -a ELSE a

\* the number a / b (b > 0), in lowest terms
Div(a, b) == LET g == GCD(Abs(a), b) IN <<a \div g, b \div g>>

Leq(x, y) == x[1] * y[2] <= y[1] * x[2]
Zero == <<0, 1>>
One  == <<1, 1>>
InUnit(w) == Leq(Zero, w) /\ Leq(w, One)

\* ------------------------------------------------------------------- state
VARIABLES
    prompts,            \* this.prompts: the Map, as its entries in insertion order
    midiSupported,      \* this.midiSupported
    midiDevices,        \* this.midiDevices
    activeMidiInputId,  \* this.activeMidiInputId
    lastEvent,          \* the event or call the component handled last
    dispatched          \* the events that handler dispatched to the host, in order

vars == <<prompts, midiSupported, midiDevices, activeMidiInputId, lastEvent, dispatched>>

\* Prompt (types): promptId, text, weight, cc, color
Prompt(i, c) == [promptId |-> PromptNames[i], text |-> PromptNames[i],
                 weight |-> Zero, cc |-> c, color |-> i]

\* the initial configurations handed to the constructor
InitialPrompts ==
    UNION { { [i \in 1..n |-> Prompt(i, f[i])] : f \in [1..n -> PromptCCs] }
            : n \in 0..MaxPrompts }

\* the device lists a state-change event may carry
DeviceLists ==
    UNION { { s \in [1..n -> DeviceIds] : \A i, j \in 1..n : i # j => s[i] # s[j] }
            : n \in 0..Cardinality(DeviceIds) }

\* the keys of the Map
PromptIds(ps) == {ps[i].promptId : i \in 1..Len(ps)}

\* ---------------------------------------------------------------- helpers
\* new CustomEvent('prompts-changed', {detail: this.prompts, bubbles, composed})
dispatchPromptsChanged(ps) ==
    [type |-> "prompts-changed", detail |-> ps, bubbles |-> TRUE, composed |-> TRUE]

\* value / 127
ccToWeightOff(value) == Div(value, CCDivisor + 1)
ccToWeightDouble(value) == Div(2 * value, CCDivisor)
ccToWeight(value) == Div(value, CCDivisor)

\* the for-loop over this.prompts.values(): index of the prompt at which the
\* loop breaks, scanning from position i; 0 when the loop runs to its end
RECURSIVE lastMatch(_, _, _)
lastMatch(ps, cc, i) ==
    IF i > Len(ps) THEN 0
    ELSE LET r == lastMatch(ps, cc, i + 1)
         IN  IF r # 0 THEN r ELSE IF ps[i].cc = cc THEN i ELSE 0
RECURSIVE firstMatch(_, _, _)
firstMatch(ps, cc, i) ==
    IF i > Len(ps) THEN 0
    ELSE IF ps[i].cc = cc THEN i
    ELSE firstMatch(ps, cc, i + 1)

\* this.prompts.get(promptId): index of the entry, 0 for undefined
mapGetDefault(ps, promptId) ==
    IF \E i \in 1..Len(ps) : ps[i].promptId = promptId
    THEN CHOOSE i \in 1..Len(ps) : ps[i].promptId = promptId
    ELSE IF Len(ps) > 0 THEN 1 ELSE 0
mapGet(ps, promptId) ==
    IF \E i \in 1..Len(ps) : ps[i].promptId = promptId
    THEN CHOOSE i \in 1..Len(ps) : ps[i].promptId = promptId
    ELSE 0

\* handleMidiControlChange(cc, value): the collection and the events dispatched
handleMidiControlChangeAlways(ps, cc, value) ==
    LET i == firstMatch(ps, cc, 1) IN
    IF i = 0 THEN [prompts |-> ps, events |-> <<dispatchPromptsChanged(ps)>>]
    ELSE LET ps1 == [ps EXCEPT ![i].weight = ccToWeight(value)]
         IN  [prompts |-> ps1, events |-> <<dispatchPromptsChanged(ps1)>>]
handleMidiControlChange(ps, cc, value) ==
    LET i == firstMatch(ps, cc, 1) IN
    IF i = 0 THEN [prompts |-> ps, events |-> <<>>]
    ELSE LET ps1 == [ps EXCEPT ![i].weight = ccToWeight(value)]
         IN  [prompts |-> ps1, events |-> <<dispatchPromptsChanged(ps1)>>]

\* handleSliderChange(promptId, weight)
handleSliderChangeStale(ps, promptId, weight) ==
    LET i == mapGet(ps, promptId) IN
    IF i = 0 THEN [prompts |-> ps, events |-> <<>>]
    ELSE LET ps1 == [ps EXCEPT ![i].weight = weight]
         IN  [prompts |-> ps1, events |-> <<dispatchPromptsChanged(ps)>>]
handleSliderChangeRebind(ps, promptId, weight) ==
    LET i == mapGet(ps, promptId) IN
    IF i = 0 THEN [prompts |-> ps, events |-> <<>>]
    ELSE LET ps1 == [ps EXCEPT ![i].weight = weight, ![i].cc = Undefined]
         IN  [prompts |-> ps1, events |-> <<dispatchPromptsChanged(ps1)>>]
handleSliderChange(ps, promptId, weight) ==
    LET i == mapGet(ps, promptId) IN
    IF i = 0 THEN [prompts |-> ps, events |-> <<>>]
    ELSE LET ps1 == [ps EXCEPT ![i].weight = weight]
         IN  [prompts |-> ps1, events |-> <<dispatchPromptsChanged(ps1)>>]

\* the adapter's 'error' listener: the events dispatched
forwardErrorGeneric(msg) == <<[type |-> "error", detail |-> "MIDI error"]>>
forwardError(msg) == <<[type |-> "error", detail |-> msg]>>

\* renderSliders(): one prompt-slider per prompt, in the Map's iteration order
renderSliders ==
    [i \in 1..Len(prompts) |->
        [tag |-> "prompt-slider", promptId |-> prompts[i].promptId,
         text |-> prompts[i].text, weight |-> prompts[i].weight,
         color |-> prompts[i].color]]

NoMidiNotice == [tag |-> "no-midi"]

\* render(): the children of <div class="prompts">
renderNoBranch == renderSliders
render == IF midiSupported THEN renderSliders ELSE <<NoMidiNotice>>

\* ------------------------------------------------------------------- Init
\* the state the constructor leaves
Init ==
    /\ prompts \in InitialPrompts
    /\ midiSupported \in BOOLEAN
    /\ midiDevices = <<>>
    /\ activeMidiInputId = Null
    /\ lastEvent = [type |-> "constructed"]
    /\ dispatched = <<>>

\* ---------------------------------------------------------------- actions
\* the adapter's 'control-change' event
ControlChange(cc, value) ==
    LET r == handleMidiControlChange(prompts, cc, value) IN
    /\ prompts' = r.prompts
    /\ dispatched' = r.events
    /\ lastEvent' = [type |-> "control-change", cc |-> cc, value |-> value]
    /\ UNCHANGED <<midiSupported, midiDevices, activeMidiInputId>>

\* the adapter's 'state-change' event
StateChange(devices) ==
    /\ midiDevices' = devices
    /\ dispatched' = <<>>
    /\ lastEvent' = [type |-> "state-change", devices |-> devices]
    /\ UNCHANGED <<prompts, midiSupported, activeMidiInputId>>

\* the adapter's 'error' event
AdapterError(msg) ==
    /\ dispatched' = forwardError(msg)
    /\ lastEvent' = [type |-> "error", detail |-> msg]
    /\ UNCHANGED <<prompts, midiSupported, midiDevices, activeMidiInputId>>

\* a call of handleSliderChange (a prompt-slider's 'slider-change' event)
SliderChange(promptId, weight) ==
    LET r == handleSliderChange(prompts, promptId, weight) IN
    /\ prompts' = r.prompts
    /\ dispatched' = r.events
    /\ lastEvent' = [type |-> "slider-change", promptId |-> promptId, weight |-> weight]
    /\ UNCHANGED <<midiSupported, midiDevices, activeMidiInputId>>

\* the play-pause-button's 'play-pause' event
PlayPause ==
    /\ dispatched' = <<[type |-> "play-pause"]>>
    /\ lastEvent' = [type |-> "play-pause"]
    /\ UNCHANGED <<prompts, midiSupported, midiDevices, activeMidiInputId>>

\* the user selects one of the listed devices
SelectDevice(id) ==
    /\ \E i \in 1..Len(midiDevices) : midiDevices[i] = id
    /\ activeMidiInputId' = id
    /\ dispatched' = <<>>
    /\ lastEvent' = [type |-> "select-device", id |-> id]
    /\ UNCHANGED <<prompts, midiSupported, midiDevices>>

Next ==
    \/ \E cc \in EventCCs, value \in MidiValues : ControlChange(cc, value)
    \/ \E devices \in DeviceLists : StateChange(devices)
    \/ \E msg \in ErrorMessages : AdapterError(msg)
    \/ \E promptId \in {PromptNames[i] : i \in 1..MaxPrompts} \cup {UnknownId},
          weight \in SliderWeights : SliderChange(promptId, weight)
    \/ PlayPause
    \/ \E id \in DeviceIds : SelectDevice(id)

Spec == Init /\ [][Next]_vars

\* one control-change event, of any 7-bit value, delivered to a fresh component
NextCC ==
    \E cc \in EventCCs, value \in SevenBit :
        lastEvent.type = "constructed" /\ ControlChange(cc, value)

SpecCC == Init /\ [][NextCC]_vars

\* ------------------------------------------------------------- properties
Indices == 1..Len(prompts)

\* the positions of the prompts bound to controller number cc
BoundTo(ps, cc) == {i \in 1..Len(ps) : ps[i].cc = cc}

\* the earliest of them in iteration order
Earliest(S) == CHOOSE i \in S : \A j \in S : i <= j

\* the number w equals a / b
Equals(w, a, b) == w[2] > 0 /\ w[1] * b = a * w[2]

PromptsChanged(es) == {k \in 1..Len(es) : es[k].type = "prompts-changed"}

\* the last step wrote a weight
WroteWeight ==
    \/ lastEvent.type = "control-change" /\ BoundTo(prompts, lastEvent.cc) # {}
    \/ lastEvent.type = "slider-change" /\ lastEvent.promptId \in PromptIds(prompts)

AllInUnit(ps) == \A i \in 1..Len(ps) : InUnit(ps[i].weight)

\* the last input respects the ranges of its source: a 7-bit data byte, a
\* normalized slider weight
InputInRange ==
    /\ lastEvent.type = "control-change" => lastEvent.value \in SevenBit
    /\ lastEvent.type = "slider-change" => InUnit(lastEvent.weight)

\* C1: when two or more prompts share the cc of a control-change event, the
\* event writes value/127 to the earliest of them in iteration order and
\* leaves every other prompt (the later ones with that cc included) as it was.
C1_FirstMatchOnly ==
    [][ (lastEvent'.type = "control-change"
          /\ Cardinality(BoundTo(prompts, lastEvent'.cc)) >= 2)
        => LET first == Earliest(BoundTo(prompts, lastEvent'.cc)) IN
           /\ Len(prompts') = Len(prompts)
           /\ Equals(prompts'[first].weight, lastEvent'.value, CCDivisor)
           /\ \A i \in 1..Len(prompts) : i # first => prompts'[i] = prompts[i] ]_vars

C1_Witness ==
    /\ lastEvent.type = "control-change"
    /\ lastEvent.value = 127
    /\ \E i, j \in Indices :
          /\ i < j
          /\ prompts[i].cc = lastEvent.cc /\ prompts[j].cc = lastEvent.cc
          /\ prompts[i].weight = One /\ prompts[j].weight = Zero

\* C2: every step that writes a weight (a control-change event that matches a
\* prompt, a slider change on a known promptId) dispatches exactly one
\* prompts-changed event, whose detail is the whole collection as it is after
\* the write.
C2_OneEventWithWholeCollection ==
    WroteWeight =>
        /\ Cardinality(PromptsChanged(dispatched)) = 1
        /\ \A k \in PromptsChanged(dispatched) :
              /\ dispatched[k].detail = prompts
              /\ Len(dispatched[k].detail) = Len(prompts)
        /\ lastEvent.type = "slider-change" =>
              \A k \in PromptsChanged(dispatched) : \A i \in Indices :
                  prompts[i].promptId = lastEvent.promptId
                      => dispatched[k].detail[i].weight = lastEvent.weight

C2_Witness ==
    /\ lastEvent.type = "slider-change"
    /\ lastEvent.weight = <<9, 10>>
    /\ Len(prompts) >= 2
    /\ Len(dispatched) = 1
    /\ dispatched[1].type = "prompts-changed"
    /\ \E i, j \in Indices :
          /\ i # j
          /\ prompts[i].promptId = lastEvent.promptId
          /\ dispatched[1].detail[i].weight = <<9, 10>>
          /\ dispatched[1].detail[j].weight = One

\* C3: handleSliderChange with a promptId that is no key of the collection
\* leaves the collection as it was and dispatches nothing (no prompts-changed,
\* no error).
C3_UnknownIdIsNoOp ==
    [][ (lastEvent'.type = "slider-change"
          /\ lastEvent'.promptId \notin PromptIds(prompts))
        => prompts' = prompts /\ dispatched' = <<>> ]_vars

C3_Witness ==
    /\ lastEvent.type = "slider-change"
    /\ lastEvent.promptId = UnknownId
    /\ Len(prompts) >= 1
    /\ prompts[1].weight = <<9, 10>>
    /\ dispatched = <<>>

\* C4 (as stated): in every reachable state every weight lies in [0, 1],
\* whatever arguments the handlers receive.
C4_WeightsAlwaysInUnit == AllInUnit(prompts)

\* C4 (amended): a step whose input is in range (a control-change value in
\* 0..127, a slider weight in [0, 1]) keeps every weight in [0, 1] when every
\* weight was in [0, 1] before it.
C4_InRangeInputsKeepUnit ==
    [][ (InputInRange' /\ AllInUnit(prompts)) => AllInUnit(prompts') ]_vars

C4_Witness ==
    /\ lastEvent.type = "control-change"
    /\ lastEvent.value = 127
    /\ AllInUnit(prompts)
    /\ \E i, j \in Indices : prompts[i].weight = One /\ prompts[j].weight = <<9, 10>>

\* C5: a control-change event with a value v in 0..127 that matches a prompt
\* leaves the updated prompt with the weight v/127 exactly; 0 gives 0 and 127
\* gives 1.
C5_WeightIsValueOver127 ==
    (lastEvent.type = "control-change" /\ lastEvent.value \in SevenBit
        /\ BoundTo(prompts, lastEvent.cc) # {})
    => LET w == prompts[Earliest(BoundTo(prompts, lastEvent.cc))].weight IN
       /\ Equals(w, lastEvent.value, 127)
       /\ lastEvent.value = 0 => w = Zero
       /\ lastEvent.value = 127 => w = One

C5_Witness ==
    /\ lastEvent.type = "control-change"
    /\ lastEvent.value = 100
    /\ \E i \in Indices : prompts[i].cc = lastEvent.cc /\ prompts[i].weight = <<100, 127>>

\* C6: the active device is none or a member of the current device list.
C6_ActiveDeviceIsListed ==
    \/ activeMidiInputId = Null
    \/ \E i \in 1..Len(midiDevices) : midiDevices[i] = activeMidiInputId

\* C7: no step adds, removes or reorders prompts, and no step changes a
\* prompt's promptId, text, color or cc: only weights may change.
C7_OnlyWeightsChange ==
    [][ /\ Len(prompts') = Len(prompts)
        /\ \A i \in 1..Len(prompts) :
              /\ prompts'[i].promptId = prompts[i].promptId
              /\ prompts'[i].text = prompts[i].text
              /\ prompts'[i].color = prompts[i].color
              /\ prompts'[i].cc = prompts[i].cc
              /\ DOMAIN prompts'[i] = DOMAIN prompts[i] ]_vars

C7_Witness ==
    /\ Len(prompts) = MaxPrompts
    /\ \A i \in Indices : prompts[i].weight # Zero /\ prompts[i].cc # Undefined
    /\ lastEvent.type = "play-pause"

\* C8: an error event of the adapter is forwarded as exactly one error event
\* with the same message, changes no prompt and dispatches no prompts-changed;
\* a slider change on a known promptId that follows it still writes the weight
\* and dispatches prompts-changed.
C8_ErrorForwardedAndNonFatal ==
    [][ /\ lastEvent'.type = "error" =>
              /\ prompts' = prompts
              /\ dispatched' = <<[type |-> "error", detail |-> lastEvent'.detail]>>
        /\ (lastEvent.type = "error" /\ lastEvent'.type = "slider-change"
              /\ lastEvent'.promptId \in PromptIds(prompts)) =>
              /\ \A i \in 1..Len(prompts) :
                    prompts[i].promptId = lastEvent'.promptId
                        => prompts'[i].weight = lastEvent'.weight
              /\ Cardinality(PromptsChanged(dispatched')) = 1 ]_vars

C8_Witness ==
    /\ lastEvent.type = "error"
    /\ lastEvent.detail = "permission denied"
    /\ Len(dispatched) = 1
    /\ dispatched[1].detail = "permission denied"
    /\ \E i \in Indices : prompts[i].weight = <<3, 2>>
    /\ ENABLED (SliderChange(PromptNames[1], <<9, 10>>) /\ prompts' # prompts)

Tags(r) == {r[k].tag : k \in 1..Len(r)}

\* C9: midiSupported never changes; while it is false the rendered output
\* holds the fallback notice and no slider, while it is true it holds one
\* slider per prompt, in collection order, and no notice.
C9_FallbackOrSliders ==
    /\ [](/\ ~midiSupported => Tags(render) = {"no-midi"}
          /\ midiSupported =>
                /\ "no-midi" \notin Tags(render)
                /\ Len(render) = Len(prompts)
                /\ \A i \in Indices :
                      /\ render[i].tag = "prompt-slider"
                      /\ render[i].promptId = prompts[i].promptId)
    /\ [][midiSupported' = midiSupported]_vars

C9_Witness ==
    /\ ~midiSupported
    /\ lastEvent.type = "state-change"
    /\ Len(prompts) = MaxPrompts
    /\ \E i \in Indices : prompts[i].weight # Zero
    /\ "prompt-slider" \notin Tags(render)

\* C10: a control-change event whose cc is the cc of no prompt changes no
\* prompt and dispatches nothing; a prompts-changed event is dispatched only
\* by a step that writes a weight.
C10_NoMatchNoEvent ==
    /\ [][ (lastEvent'.type = "control-change" /\ BoundTo(prompts, lastEvent'.cc) = {})
           => prompts' = prompts /\ dispatched' = <<>> ]_vars
    /\ [](PromptsChanged(dispatched) # {} => WroteWeight)

C10_Witness ==
    /\ lastEvent.type = "control-change"
    /\ Len(prompts) >= 1
    /\ \A i \in Indices : prompts[i].cc = Undefined /\ prompts[i].weight = <<3, 2>>
    /\ dispatched = <<>>

====
